---- MODULE Spec2Model ----
(***************************************************************************)
(* Model of app/flagging.py: the Streamlit script that validates a REDCap  *)
(* id, parses five measurements, compares them with the Visit 1 row,       *)
(* appends a row to the Google sheet and e-mails the flagged measurements. *)
(*                                                                         *)
(* Numbers are held in tenths (21.5 is 215).  Every number of the model is *)
(* a multiple of 0.5, which an IEEE double holds exactly, so that the      *)
(* exact arithmetic below agrees with the float arithmetic of the script.  *)
(* A text is a sequence of one-character strings.                          *)
(***************************************************************************)
EXTENDS Integers, Sequences, FiniteSets, TLC

VARIABLES pc, option, rec_id, record_id, person, button, texts,
          measure_to_variable, bmi, visit1_data, categories, results,
          sheet, emails, ui

vars == <<pc, option, rec_id, record_id, person, button, texts,
          measure_to_variable, bmi, visit1_data, categories, results,
          sheet, emails, ui>>

\* ------------------------------------------------------------------ bounds
\* The classifier is explored on baseline and current values 0, 0.5, ...,
\* MaxHalf / 2.
MaxHalf == 209

\* ------------------------------------------------------------------ values
None == [k |-> "none", v |-> 0]
NaN == [k |-> "nan", v |-> 0]
Num(x) == [k |-> "num", v |-> x]
BmiNone == [k |-> "none", num |-> 0, den |-> 1]

Abs(x) == IF x < 0 THEN -x ELSE x

\* Python truthiness of an Optional[float]: None and 0.0 are falsy.
Truthy(x) == x.k = "num" /\ x.v # 0

Measures == <<"Sternal Notch", "Height", "Weight", "Waist Circumference",
              "Arm Circumference">>
MeasureSet == {Measures[i] : i \in 1..Len(Measures)}

measure_to_column == [m \in MeasureSet |->
    CASE m = "Sternal Notch" -> "phy_sternal"
      [] m = "Height" -> "phy_height_inch"
      [] m = "Weight" -> "phy_weight_lb"
      [] m = "Waist Circumference" -> "phy_waist_circ"
      [] m = "Arm Circumference" -> "phy_arm"]

\* ------------------------------------------------------------------ texts
Digits == <<"0", "1", "2", "3", "4", "5", "6", "7", "8", "9">>
DigitSet == {Digits[i] : i \in 1..10}
DigitVal(c) == (CHOOSE i \in 1..10 : Digits[i] = c) - 1

\* str.strip(): leading and trailing blanks removed.
RECURSIVE StripLeft(_)
StripLeft(s) == IF s # <<>> /\ Head(s) = " " THEN StripLeft(Tail(s)) ELSE s
RECURSIVE StripRight(_)
StripRight(s) ==
    IF s # <<>> /\ s[Len(s)] = " " THEN StripRight(SubSeq(s, 1, Len(s) - 1))
    ELSE s
Strip(s) == StripRight(StripLeft(s))

\* re.match(r'^CBP-\d{4}(-B)?$', s) on a stripped text.
valid_rec_id(s) ==
    /\ Len(s) \in {8, 10}
    /\ SubSeq(s, 1, 4) = <<"C", "B", "P", "-">>
    /\ \A i \in 5..8 : s[i] \in DigitSet
    /\ Len(s) = 10 => SubSeq(s, 9, 10) = <<"-", "B">>

\* str.replace("-B", ""): every occurrence is removed, left to right.
RECURSIVE ReplaceDashB(_)
ReplaceDashB(s) ==
    IF Len(s) < 2 THEN s
    ELSE IF s[1] = "-" /\ s[2] = "B" THEN ReplaceDashB(SubSeq(s, 3, Len(s)))
    ELSE <<s[1]>> \o ReplaceDashB(Tail(s))

\* The lookup key without the normalisation: the identifier as entered.
NormalizeKeep(s) == s

\* record_id = rec_id.replace("-B", "") if "-B" in rec_id else rec_id
Normalize(s) == ReplaceDashB(s)

\* float(s) on the decimal texts of the model: an optional sign, digits and
\* at most one fractional digit.  The result is in tenths; [ok |-> FALSE]
\* is ValueError.
RECURSIVE DigitsVal(_)
DigitsVal(s) ==
    IF s = <<>> THEN 0 ELSE DigitsVal(SubSeq(s, 1, Len(s) - 1)) * 10 + DigitVal(s[Len(s)])

AllDigits(s) == \A i \in 1..Len(s) : s[i] \in DigitSet

ParseUnsigned(s) ==
    LET dots == {i \in 1..Len(s) : s[i] = "."} IN
    IF dots = {} THEN
        IF s # <<>> /\ AllDigits(s) THEN [ok |-> TRUE, v |-> DigitsVal(s) * 10]
        ELSE [ok |-> FALSE, v |-> 0]
    ELSE
        LET d == CHOOSE i \in dots : TRUE
            ip == SubSeq(s, 1, d - 1)
            fp == SubSeq(s, d + 1, Len(s))
        IN IF /\ Cardinality(dots) = 1
              /\ AllDigits(ip) /\ AllDigits(fp)
              /\ Len(ip) + Len(fp) > 0
              /\ Len(fp) <= 1
           THEN [ok |-> TRUE, v |-> DigitsVal(ip) * 10 + DigitsVal(fp)]
           ELSE [ok |-> FALSE, v |-> 0]

float(s) ==
    IF s # <<>> /\ s[1] = "-" THEN
        LET r == ParseUnsigned(Tail(s)) IN [ok |-> r.ok, v |-> -r.v]
    ELSE IF s # <<>> /\ s[1] = "+" THEN ParseUnsigned(Tail(s))
    ELSE ParseUnsigned(s)

\* "float(x) if x else None" for one field.
Convert(s) == IF s = <<>> THEN None ELSE Num(float(s).v)
Convertible(s) == s = <<>> \/ float(s).ok

\* ------------------------------------------------------------ classifier
\* A deviation is the fraction num / den; den = 0 is inf (num > 0) or nan
\* (num = 0), as numpy.float64 division gives.  Limits are in tenths.
NaNDiff == [num |-> 0, den |-> 0]

Gt(d, t) == IF d.den = 0 THEN d.num > 0 ELSE d.num * 10 > t * d.den
Ge(d, t) == IF d.den = 0 THEN d.num > 0 ELSE d.num * 10 >= t * d.den
Le(d, t) == IF d.den = 0 THEN FALSE ELSE d.num * 10 <= t * d.den

\* The percentage taken of the current value instead of the baseline.
WeightDiffByCurrent(visit_2_measure, visit_1_measure) ==
    IF visit_1_measure.k = "nan" THEN NaNDiff
    ELSE [num |-> Abs(visit_2_measure.v - visit_1_measure.v) * 100,
          den |-> Abs(visit_2_measure.v)]

\* abs((visit_2_measure - visit_1_measure) / visit_1_measure) * 100
WeightDiff(visit_2_measure, visit_1_measure) ==
    IF visit_1_measure.k = "nan" THEN NaNDiff
    ELSE [num |-> Abs(visit_2_measure.v - visit_1_measure.v) * 100,
          den |-> Abs(visit_1_measure.v)]

\* abs(visit_2_measure - visit_1_measure)
AbsDiff(visit_2_measure, visit_1_measure) ==
    IF visit_1_measure.k = "nan" THEN NaNDiff
    ELSE [num |-> Abs(visit_2_measure.v - visit_1_measure.v), den |-> 10]

Diff(measure, visit_2_measure, visit_1_measure) ==
    IF measure = "Weight" THEN WeightDiff(visit_2_measure, visit_1_measure)
    ELSE AbsDiff(visit_2_measure, visit_1_measure)

\* The buckets with 24 itself counted as Medium.
SizeCategoryExclusive(x) ==
    IF x.k = "num" /\ x.v < 240 THEN "Small"
    ELSE IF x.k = "num" /\ 240 <= x.v /\ x.v <= 330 THEN "Medium"
    ELSE "Large"

\* Small / Medium / Large; every comparison with nan is False, so nan falls
\* through to the else branch.
SizeCategory(x) ==
    IF x.k = "num" /\ x.v <= 240 THEN "Small"
    ELSE IF x.k = "num" /\ 240 < x.v /\ x.v <= 330 THEN "Medium"
    ELSE "Large"

\* The chain with the Yellow lower limits exclusive.
LimitCategoryStrict(measure, diff) ==
    IF measure = "Sternal Notch" /\ Gt(diff, 20) THEN "Red"
    ELSE IF measure = "Sternal Notch" /\ Gt(diff, 15) /\ Le(diff, 20) THEN "Yellow"
    ELSE IF measure = "Height" /\ Gt(diff, 20) THEN "Red"
    ELSE IF measure = "Height" /\ Gt(diff, 10) /\ Le(diff, 20) THEN "Yellow"
    ELSE IF measure = "Weight" /\ Gt(diff, 40) THEN "Red"
    ELSE IF measure = "Weight" /\ Gt(diff, 30) /\ Le(diff, 40) THEN "Yellow"
    ELSE IF measure = "Waist Circumference" /\ Gt(diff, 65) THEN "Red"
    ELSE IF measure = "Waist Circumference" /\ Gt(diff, 40) /\ Le(diff, 65) THEN "Yellow"
    ELSE ""

\* The if / elif chain of the loop body for the measures with limits:
\* "Red", "Yellow", or "" when no branch assigns categories[measure].
LimitCategory(measure, diff) ==
    IF measure = "Sternal Notch" /\ Gt(diff, 20) THEN "Red"
    ELSE IF measure = "Sternal Notch" /\ Ge(diff, 15) /\ Le(diff, 20) THEN "Yellow"
    ELSE IF measure = "Height" /\ Gt(diff, 20) THEN "Red"
    ELSE IF measure = "Height" /\ Ge(diff, 10) /\ Le(diff, 20) THEN "Yellow"
    ELSE IF measure = "Weight" /\ Gt(diff, 40) THEN "Red"
    ELSE IF measure = "Weight" /\ Ge(diff, 30) /\ Le(diff, 40) THEN "Yellow"
    ELSE IF measure = "Waist Circumference" /\ Gt(diff, 65) THEN "Red"
    ELSE IF measure = "Waist Circumference" /\ Ge(diff, 40) /\ Le(diff, 65) THEN "Yellow"
    ELSE ""

Category(measure, visit_2_measure, visit_1_measure) ==
    LET c == LimitCategory(measure, Diff(measure, visit_2_measure, visit_1_measure)) IN
    IF c # "" THEN c
    ELSE IF measure = "Arm Circumference"
            /\ SizeCategory(visit_1_measure) # SizeCategory(visit_2_measure)
         THEN "Red"
    ELSE ""

\* The loop over measure_to_variable.items(): the entries of categories, in
\* insertion order.
RECURSIVE CategoriesFrom(_, _, _)
CategoriesFrom(i, m2v, row) ==
    IF i > Len(Measures) THEN <<>>
    ELSE LET measure == Measures[i]
             c == Category(measure, m2v[measure], row[measure_to_column[measure]])
         IN (IF m2v[measure] # None /\ c # ""
             THEN <<[measure |-> measure, category |-> c]>> ELSE <<>>)
            \o CategoriesFrom(i + 1, m2v, row)

\* categories.get(measure, 'Green')
Get(cats, measure) ==
    IF \E i \in 1..Len(cats) : cats[i].measure = measure
    THEN cats[CHOOSE i \in 1..Len(cats) : cats[i].measure = measure].category
    ELSE "Green"

\* The rows appended to results, one per measure entered in this visit.
RECURSIVE ResultsFrom(_, _, _)
ResultsFrom(i, m2v, row) ==
    IF i > Len(Measures) THEN <<>>
    ELSE LET measure == Measures[i] IN
         (IF m2v[measure] # None
          THEN <<[measure |-> measure,
                  category |-> Get(CategoriesFrom(1, m2v, row), measure),
                  visit_1 |-> row[measure_to_column[measure]],
                  visit_2 |-> m2v[measure]]>>
          ELSE <<>>)
         \o ResultsFrom(i + 1, m2v, row)

\* The test with Red alone.
AnyRedOnly(cats) == \E i \in 1..Len(cats) : cats[i].category \in {"Red"}

\* any(cat in ['Red', 'Yellow'] for cat in categories.values())
AnyFlagged(cats) == \E i \in 1..Len(cats) : cats[i].category \in {"Red", "Yellow"}

\* The rows of flagged_measurements_table, serial number first.
FlaggedTable(cats, m2v, row) ==
    [i \in 1..Len(cats) |->
        [serial |-> i, measure |-> cats[i].measure, category |-> cats[i].category,
         visit_1 |-> row[measure_to_column[cats[i].measure]],
         visit_2 |-> m2v[cats[i].measure]]]

\* bmi = (weight / (height ** 2)) * 703, as the fraction num / den.
BmiOf(height, weight) ==
    IF Truthy(height) /\ Truthy(weight)
    THEN [k |-> "num", num |-> weight.v * 7030, den |-> height.v * height.v]
    ELSE BmiNone

\* (height and not weight) or (weight and not height)
HeightWeightMismatch(height, weight) ==
    \/ Truthy(height) /\ ~Truthy(weight)
    \/ Truthy(weight) /\ ~Truthy(height)

\* ------------------------------------------------------------- the data
\* visit1_df: the Visit 1 table read from the CSV.  The second subject has
\* empty cells, which pandas.read_csv reads as nan.
visit1_df == <<
    [record_id |-> <<"C", "B", "P", "-", "0", "0", "2", "3">>,
     phy_sternal |-> Num(200), phy_height_inch |-> Num(680),
     phy_weight_lb |-> Num(1500), phy_waist_circ |-> Num(800),
     phy_arm |-> Num(280)],
    [record_id |-> <<"C", "B", "P", "-", "0", "2", "5", "1">>,
     phy_sternal |-> Num(200), phy_height_inch |-> NaN,
     phy_weight_lb |-> Num(1500), phy_waist_circ |-> NaN,
     phy_arm |-> NaN] >>

\* What the user may type into the REDCap id box.
RecIdTexts == {
    <<>>,
    <<"C", "B", "P", "-", "0", "0", "2", "3">>,
    <<" ", "C", "B", "P", "-", "0", "0", "2", "3", " ">>,
    <<"C", "B", "P", "-", "0", "0", "2", "3", "-", "B">>,
    <<"C", "B", "P", "-", "0", "2", "5", "1">>,
    <<"C", "B", "P", "-", "0", "4", "0", "4">>,
    <<"C", "B", "P", "-", "2", "3">>,
    <<"C", "B", "P", "-", "0", "0", "2", "3", "-", "B", "X">> }

Coordinators == {"Select a coordinator", "Alyssa"}
Remeasurers == {"Select a person", "Dr. T"}

\* What the user may type into each measurement box.
FieldTexts == [m \in MeasureSet |->
    CASE m = "Sternal Notch" -> {<<>>, <<"x">>, <<"2", "2">>}
      [] m = "Height" -> {<<>>, <<"0">>, <<"6", "8">>, <<"7", "1", ".", "5">>}
      [] m = "Weight" -> {<<>>, <<"1", "5", "0">>, <<"-", "5">>, <<"1", "5", "6">>}
      [] m = "Waist Circumference" -> {<<>>, <<"8", "7">>}
      [] m = "Arm Circumference" -> {<<>>, <<"2", "8">>, <<"2", "0">>}]

NoTexts == [m \in MeasureSet |-> <<>>]
NoValues == [m \in MeasureSet |-> None]

\* ------------------------------------------------------------ the script
\* pc is the statement the script run has reached:
\*   "form"     the page waits for the user's input
\*   "rec_id"   lines 29-37      "person"   lines 39-49
\*   "convert"  lines 58-67      "bmi_check" lines 69-72
\*   "bmi"      lines 74-77      "submit"   line 89
\*   "lookup"   lines 92-95      "classify" lines 97-158
\*   "append"   line 162 / 215   "email"    lines 164-208
\*   "success"  line 210 / 216
\*   "done"     the run reached the end of the script
\*   "stopped"  st.stop()        "crashed"  an uncaught exception
Init ==
    /\ pc = "form"
    /\ option = "Comparison"
    /\ rec_id = <<>>
    /\ record_id = <<>>
    /\ person = "Select a coordinator"
    /\ button = FALSE
    /\ texts = NoTexts
    /\ measure_to_variable = NoValues
    /\ bmi = BmiNone
    /\ visit1_data = <<>>
    /\ categories = <<>>
    /\ results = <<>>
    /\ sheet = <<>>
    /\ emails = <<>>
    /\ ui = {}

\* The user fills the widgets and the script runs: the radio, the id box
\* (stripped on read), the select box of the mode, the five measurement boxes
\* (stripped on read) and the Submit button.
Fill ==
    /\ pc = "form"
    /\ \E o \in {"Comparison", "Re-measure"}, r \in RecIdTexts, b \in BOOLEAN :
         /\ option' = o
         /\ rec_id' = Strip(r)
         /\ button' = b
         /\ person' \in (IF o = "Comparison" THEN Coordinators ELSE Remeasurers)
    /\ texts' \in [MeasureSet -> UNION {FieldTexts[m] : m \in MeasureSet}]
    /\ \A m \in MeasureSet : texts'[m] \in FieldTexts[m]
    /\ pc' = "rec_id"
    /\ UNCHANGED <<record_id, measure_to_variable, bmi, visit1_data,
                   categories, results, sheet, emails, ui>>

\* Lines 29-37: the id is checked against the pattern, then normalised.
RecIdRejected ==
    /\ pc = "rec_id"
    /\ rec_id # <<>> /\ ~valid_rec_id(rec_id)
    /\ ui' = ui \cup {"warning: REDCap ID pattern"}
    /\ pc' = "stopped"
    /\ UNCHANGED <<option, rec_id, record_id, person, button, texts,
                   measure_to_variable, bmi, visit1_data, categories,
                   results, sheet, emails>>

RecIdAccepted ==
    /\ pc = "rec_id"
    /\ ~(rec_id # <<>> /\ ~valid_rec_id(rec_id))
    /\ record_id' = Normalize(rec_id)
    /\ pc' = "person"
    /\ UNCHANGED <<option, rec_id, person, button, texts,
                   measure_to_variable, bmi, visit1_data, categories,
                   results, sheet, emails, ui>>

\* Lines 39-49: the placeholder of the select box stops the run.
PersonMissing ==
    /\ pc = "person"
    /\ person \in {"Select a coordinator", "Select a person"}
    /\ ui' = ui \cup {IF option = "Comparison"
                      THEN "warning: select a coordinator"
                      ELSE "warning: select who re-measured"}
    /\ pc' = "stopped"
    /\ UNCHANGED <<option, rec_id, record_id, person, button, texts,
                   measure_to_variable, bmi, visit1_data, categories,
                   results, sheet, emails>>

PersonSelected ==
    /\ pc = "person"
    /\ person \notin {"Select a coordinator", "Select a person"}
    /\ pc' = "convert"
    /\ UNCHANGED <<option, rec_id, record_id, person, button, texts,
                   measure_to_variable, bmi, visit1_data, categories,
                   results, sheet, emails, ui>>

\* Lines 58-67: the try block converts the five texts, or none.
ConvertFailed ==
    /\ pc = "convert"
    /\ \E m \in MeasureSet : ~Convertible(texts[m])
    /\ ui' = ui \cup {"error: valid float values"}
    /\ pc' = "stopped"
    /\ UNCHANGED <<option, rec_id, record_id, person, button, texts,
                   measure_to_variable, bmi, visit1_data, categories,
                   results, sheet, emails>>

ConvertInputs ==
    /\ pc = "convert"
    /\ \A m \in MeasureSet : Convertible(texts[m])
    /\ measure_to_variable' = [m \in MeasureSet |-> Convert(texts[m])]
    /\ pc' = "bmi_check"
    /\ UNCHANGED <<option, rec_id, record_id, person, button, texts, bmi,
                   visit1_data, categories, results, sheet, emails, ui>>

\* Lines 69-72.
HeightWeightRejected ==
    /\ pc = "bmi_check"
    /\ HeightWeightMismatch(measure_to_variable["Height"], measure_to_variable["Weight"])
    /\ ui' = ui \cup {"error: both height and weight"}
    /\ pc' = "stopped"
    /\ UNCHANGED <<option, rec_id, record_id, person, button, texts,
                   measure_to_variable, bmi, visit1_data, categories,
                   results, sheet, emails>>

HeightWeightAccepted ==
    /\ pc = "bmi_check"
    /\ ~HeightWeightMismatch(measure_to_variable["Height"], measure_to_variable["Weight"])
    /\ pc' = "bmi"
    /\ UNCHANGED <<option, rec_id, record_id, person, button, texts,
                   measure_to_variable, bmi, visit1_data, categories,
                   results, sheet, emails, ui>>

\* Lines 74-77.
ComputeBmi ==
    /\ pc = "bmi"
    /\ bmi' = BmiOf(measure_to_variable["Height"], measure_to_variable["Weight"])
    /\ pc' = "submit"
    /\ UNCHANGED <<option, rec_id, record_id, person, button, texts,
                   measure_to_variable, visit1_data, categories, results,
                   sheet, emails, ui>>

\* Line 89: without a press of Submit the run ends here.
NotSubmitted ==
    /\ pc = "submit"
    /\ ~button
    /\ pc' = "done"
    /\ UNCHANGED <<option, rec_id, record_id, person, button, texts,
                   measure_to_variable, bmi, visit1_data, categories,
                   results, sheet, emails, ui>>

Submit ==
    /\ pc = "submit"
    /\ button
    /\ pc' = IF option = "Comparison" THEN "lookup" ELSE "append"
    /\ UNCHANGED <<option, rec_id, record_id, person, button, texts,
                   measure_to_variable, bmi, visit1_data, categories,
                   results, sheet, emails, ui>>

\* Line 92: the rows of visit1_df whose record_id equals the normalised id.
Matching(df, id) == SelectSeq(df, LAMBDA row : row.record_id = id)

\* Lines 92-95: no matching row is an error and the run ends.
LookupEmpty ==
    /\ pc = "lookup"
    /\ Matching(visit1_df, record_id) = <<>>
    /\ visit1_data' = <<>>
    /\ ui' = ui \cup {"error: no matching Record ID"}
    /\ pc' = "done"
    /\ UNCHANGED <<option, rec_id, record_id, person, button, texts,
                   measure_to_variable, bmi, categories, results, sheet,
                   emails>>

LookupFound ==
    /\ pc = "lookup"
    /\ Matching(visit1_df, record_id) # <<>>
    /\ visit1_data' = Matching(visit1_df, record_id)
    /\ pc' = "classify"
    /\ UNCHANGED <<option, rec_id, record_id, person, button, texts,
                   measure_to_variable, bmi, categories, results, sheet,
                   emails, ui>>

\* Lines 106-158: the loop fills categories and results from the first
\* matching row (.values[0]).
Classify ==
    /\ pc = "classify"
    /\ categories' = CategoriesFrom(1, measure_to_variable, visit1_data[1])
    /\ results' = ResultsFrom(1, measure_to_variable, visit1_data[1])
    /\ pc' = "append"
    /\ UNCHANGED <<option, rec_id, record_id, person, button, texts,
                   measure_to_variable, bmi, visit1_data, sheet, emails, ui>>

\* Lines 161 and 214: the row handed to sheet.append_row.
Data ==
    IF option = "Comparison"
    THEN <<rec_id, option, person, measure_to_variable["Sternal Notch"],
           measure_to_variable["Height"], measure_to_variable["Weight"], bmi,
           measure_to_variable["Waist Circumference"],
           measure_to_variable["Arm Circumference"], categories>>
    ELSE <<rec_id, option, person, measure_to_variable["Sternal Notch"],
           measure_to_variable["Height"], measure_to_variable["Weight"], bmi,
           measure_to_variable["Waist Circumference"],
           measure_to_variable["Arm Circumference"]>>

\* Lines 162-167 and 215: sheet.append_row returns; in Comparison mode the
\* results table is then shown.
AppendRow ==
    /\ pc = "append"
    /\ sheet' = Append(sheet, Data)
    /\ ui' = IF option = "Comparison" THEN ui \cup {"table: results"} ELSE ui
    /\ pc' = IF option = "Comparison" THEN "email" ELSE "success"
    /\ UNCHANGED <<option, rec_id, record_id, person, button, texts,
                   measure_to_variable, bmi, visit1_data, categories,
                   results, emails>>

\* sheet.append_row raises (network, quota): nothing is appended and the
\* exception ends the run.
AppendRowFails ==
    /\ pc = "append"
    /\ pc' = "crashed"
    /\ UNCHANGED <<option, rec_id, record_id, person, button, texts,
                   measure_to_variable, bmi, visit1_data, categories,
                   results, sheet, emails, ui>>

\* Line 174 false: no entry is Red or Yellow; the run ends, and the
\* st.success of line 210, which is inside the if, is not reached.
NoEmail ==
    /\ pc = "email"
    /\ ~AnyFlagged(categories)
    /\ pc' = "done"
    /\ UNCHANGED <<option, rec_id, record_id, person, button, texts,
                   measure_to_variable, bmi, visit1_data, categories,
                   results, sheet, emails, ui>>

\* Lines 174-208: the message is built and sent.
SendEmail ==
    /\ pc = "email"
    /\ AnyFlagged(categories)
    /\ emails' = Append(emails,
                   [subject |-> rec_id, coordinator |-> person,
                    flagged |-> FlaggedTable(categories, measure_to_variable,
                                             visit1_data[1])])
    /\ pc' = "success"
    /\ UNCHANGED <<option, rec_id, record_id, person, button, texts,
                   measure_to_variable, bmi, visit1_data, categories,
                   results, sheet, ui>>

\* The SMTP session raises (connect, starttls, login or send).
SendEmailFails ==
    /\ pc = "email"
    /\ AnyFlagged(categories)
    /\ pc' = "crashed"
    /\ UNCHANGED <<option, rec_id, record_id, person, button, texts,
                   measure_to_variable, bmi, visit1_data, categories,
                   results, sheet, emails, ui>>

\* Lines 210 and 216.
ReportSuccess ==
    /\ pc = "success"
    /\ ui' = ui \cup {"success"}
    /\ pc' = "done"
    /\ UNCHANGED <<option, rec_id, record_id, person, button, texts,
                   measure_to_variable, bmi, visit1_data, categories,
                   results, sheet, emails>>

\* After st.stop() the page waits for the user to correct the form; the
\* next interaction runs the script again from the top.
Rerun ==
    /\ pc = "stopped"
    /\ pc' = "form"
    /\ option' = "Comparison"
    /\ rec_id' = <<>>
    /\ record_id' = <<>>
    /\ person' = "Select a coordinator"
    /\ button' = FALSE
    /\ texts' = NoTexts
    /\ measure_to_variable' = NoValues
    /\ bmi' = BmiNone
    /\ ui' = {}
    /\ UNCHANGED <<visit1_data, categories, results, sheet, emails>>

Next ==
    \/ Fill
    \/ RecIdRejected
    \/ RecIdAccepted
    \/ PersonMissing
    \/ PersonSelected
    \/ ConvertFailed
    \/ ConvertInputs
    \/ HeightWeightRejected
    \/ HeightWeightAccepted
    \/ ComputeBmi
    \/ NotSubmitted
    \/ Submit
    \/ LookupEmpty
    \/ LookupFound
    \/ Classify
    \/ AppendRow
    \/ AppendRowFails
    \/ NoEmail
    \/ SendEmail
    \/ SendEmailFails
    \/ ReportSuccess
    \/ Rerun

Spec == Init /\ [][Next]_vars

\* ------------------------------------------------- the classifier alone
\* The classifier applied to one measure at a time, for every baseline value
\* B (or an empty cell) and current value C of the grid.  Height and weight
\* are entered together, as the check of lines 69-72 requires.
Grid == {5 * h : h \in 0..MaxHalf}

Partner(measure, c) ==
    CASE measure = "Height" -> IF c = 0 THEN {} ELSE {"Weight"}
      [] measure = "Weight" -> IF c = 0 THEN {} ELSE {"Height"}
      [] OTHER -> {}

BaseRow(measure, b) ==
    [f \in {"record_id", "phy_sternal", "phy_height_inch", "phy_weight_lb",
            "phy_waist_circ", "phy_arm"} |->
        IF f = measure_to_column[measure] THEN b ELSE visit1_df[1][f]]

InitClassify ==
    /\ pc = "classify"
    /\ option = "Comparison"
    /\ rec_id = visit1_df[1].record_id
    /\ record_id = visit1_df[1].record_id
    /\ person = "Alyssa"
    /\ button = TRUE
    /\ texts = NoTexts
    /\ \E measure \in MeasureSet, c \in Grid, b \in {Num(x) : x \in Grid} \cup {NaN} :
         /\ measure_to_variable =
              [m \in MeasureSet |->
                 IF m = measure THEN Num(c)
                 ELSE IF m \in Partner(measure, c) THEN visit1_df[1][measure_to_column[m]]
                 ELSE None]
         /\ visit1_data = <<BaseRow(measure, b)>>
    /\ bmi = BmiOf(measure_to_variable["Height"], measure_to_variable["Weight"])
    /\ categories = <<>>
    /\ results = <<>>
    /\ sheet = <<>>
    /\ emails = <<>>
    /\ ui = {}

NextClassify == Classify

SpecClassify == InitClassify /\ [][NextClassify]_vars

\* ------------------------------------------------------------ properties
Present(x) == x.k = "num"
Classified == pc \in {"append", "email", "success", "done", "crashed"} /\ visit1_data # <<>>
Baseline(measure) == visit1_data[1][measure_to_column[measure]]
Current(measure) == measure_to_variable[measure]
Entries(cats, measure) == {i \in 1..Len(cats) : cats[i].measure = measure}
Shown(measure) == {i \in 1..Len(results) : results[i].measure = measure}

\* The tier the classifier gave to a measure: its entry in the map, its row
\* in the results table, and the two agreeing.
HasTier(measure, tier) ==
    /\ \E i \in Shown(measure) : results[i].category = tier
    /\ \A i \in Shown(measure) : results[i].category = tier
    /\ IF tier = "Green" THEN Entries(categories, measure) = {}
       ELSE /\ Entries(categories, measure) # {}
            /\ \A i \in Entries(categories, measure) : categories[i].category = tier

\* The limits of section 4.3 of the specification, in tenths.
YellowLower(measure) ==
    CASE measure = "Sternal Notch" -> 15
      [] measure = "Height" -> 10
      [] measure = "Waist Circumference" -> 40
YellowUpper(measure) ==
    CASE measure = "Sternal Notch" -> 20
      [] measure = "Height" -> 20
      [] measure = "Waist Circumference" -> 65

Deviation(measure) == Abs(Current(measure).v - Baseline(measure).v)

\* C1: for Sternal Notch, Height and Waist Circumference with baseline and
\* current value both present, the tier is Red iff |C - B| is above the
\* Yellow upper limit, Yellow iff it is within the inclusive Yellow range
\* and Green otherwise.
C1_LimitTiers ==
    Classified =>
      \A measure \in {"Sternal Notch", "Height", "Waist Circumference"} :
        Present(Current(measure)) /\ Present(Baseline(measure)) =>
          HasTier(measure,
                  IF Deviation(measure) > YellowUpper(measure) THEN "Red"
                  ELSE IF Deviation(measure) >= YellowLower(measure) THEN "Yellow"
                  ELSE "Green")

\* A Sternal Notch deviation of exactly 1.5, the Yellow lower limit,
\* classified Yellow.
C1_Witness ==
    /\ Classified
    /\ Present(Current("Sternal Notch")) /\ Present(Baseline("Sternal Notch"))
    /\ Deviation("Sternal Notch") = 15
    /\ HasTier("Sternal Notch", "Yellow")

\* C2: for Weight with baseline B and current C both present the deviation
\* is the percentage |C - B| / |B| * 100 of the baseline; Red iff it is above
\* 4, Yellow iff it is in [3, 4], Green otherwise.  (With B = 0 the quotient
\* is inf, above 4, unless C = 0 too, when it is nan and no tier applies.)
C2_WeightTiers ==
    Classified /\ Present(Current("Weight")) /\ Present(Baseline("Weight")) =>
      LET B == Baseline("Weight").v
          C == Current("Weight").v
      IN HasTier("Weight",
                 IF B = 0 THEN (IF C # 0 THEN "Red" ELSE "Green")
                 ELSE IF Abs(C - B) * 100 > 4 * Abs(B) THEN "Red"
                 ELSE IF Abs(C - B) * 100 >= 3 * Abs(B) THEN "Yellow"
                 ELSE "Green")

\* Baseline 100.0 and current 104.0: exactly 4 percent, Yellow.
C2_Witness ==
    /\ Classified
    /\ Baseline("Weight") = Num(1000) /\ Current("Weight") = Num(1040)
    /\ HasTier("Weight", "Yellow")

Bucket(x) == IF x <= 240 THEN "Small" ELSE IF x <= 330 THEN "Medium" ELSE "Large"

\* C3: for Arm Circumference with baseline and current both present, each
\* value falls in Small (<= 24), Medium (24 < x <= 33) or Large (> 33); the
\* tier is Red iff the two buckets differ and Green otherwise, never Yellow.
C3_ArmTiers ==
    Classified /\ Present(Current("Arm Circumference"))
               /\ Present(Baseline("Arm Circumference")) =>
      /\ HasTier("Arm Circumference",
                 IF Bucket(Baseline("Arm Circumference").v)
                      # Bucket(Current("Arm Circumference").v)
                 THEN "Red" ELSE "Green")
      /\ \A i \in Entries(categories, "Arm Circumference") :
            categories[i].category # "Yellow"

\* Baseline 24.0 (Small) and current 33.0 (Medium), nine apart: Red; the
\* bucket limits themselves are the values compared.
C3_Witness ==
    /\ Classified
    /\ Baseline("Arm Circumference") = Num(240)
    /\ Current("Arm Circumference") = Num(330)
    /\ HasTier("Arm Circumference", "Red")

\* C4: a measure has an entry in the classification map, a row in the
\* results table, an entry in the stored categories summary or a row in the
\* flagged table only if its current value and its baseline cell both exist.
C4_BothValuesExist ==
    LET Both(measure) ==
            /\ visit1_data # <<>>
            /\ Present(Current(measure)) /\ Present(Baseline(measure))
    IN /\ \A i \in 1..Len(categories) : Both(categories[i].measure)
       /\ \A i \in 1..Len(results) : Both(results[i].measure)
       /\ \A r \in 1..Len(sheet) :
            Len(sheet[r]) = 10 =>
              \A i \in 1..Len(sheet[r][10]) : Both(sheet[r][10][i].measure)
       /\ \A e \in 1..Len(emails) :
            \A i \in 1..Len(emails[e].flagged) : Both(emails[e].flagged[i].measure)

Flagged == \E i \in 1..Len(categories) : categories[i].category \in {"Yellow", "Red"}
ShouldNotify == option = "Comparison" /\ visit1_data # <<>> /\ Flagged

C6_StoredIdsValid ==
    \A r \in 1..Len(sheet) : sheet[r][1] # <<>> /\ valid_rec_id(sheet[r][1])

Converted == pc \in {"bmi_check", "bmi", "submit", "lookup", "classify",
                     "append", "email", "success", "done", "crashed"}

\* C7: a submission with exactly one of height and weight entered (0
\* included) appends nothing and sends nothing; every row has both or
\* neither, and a BMI only with both.
C7_HeightWeightTogether ==
    /\ Converted /\ (Current("Height") = None) # (Current("Weight") = None) =>
         pc \notin {"lookup", "classify", "append", "email", "success"}
         /\ sheet = <<>> /\ emails = <<>>
    /\ \A r \in 1..Len(sheet) :
         /\ (sheet[r][5] = None) = (sheet[r][6] = None)
         /\ sheet[r][7] # BmiNone => sheet[r][5] # None /\ sheet[r][6] # None

\* C8: no negative number reaches the classifier or the sheet.
C8_NonNegative ==
    /\ pc \in {"classify", "append"} =>
         \A measure \in MeasureSet : Current(measure).v >= 0
    /\ \A r \in 1..Len(sheet) : \A f \in {4, 5, 6, 8, 9} : sheet[r][f].v >= 0

StripTrailingB(s) ==
    IF Len(s) >= 2 /\ SubSeq(s, Len(s) - 1, Len(s)) = <<"-", "B">>
    THEN SubSeq(s, 1, Len(s) - 2) ELSE s
NoBaseline == \A i \in 1..Len(visit1_df) : visit1_df[i].record_id # StripTrailingB(rec_id)

\* C9: the baseline is looked up under the identifier without its trailing
\* -B and the row keeps the identifier as entered; a Comparison run without
\* a matching baseline row reports the error and appends and sends nothing;
\* a Re-measure run looks nothing up and its submission appends its row
\* with or without a baseline.
C9_BaselineLookup ==
    /\ pc \in {"lookup", "classify", "append", "email", "success"} =>
         record_id = StripTrailingB(rec_id)
    /\ visit1_data # <<>> => visit1_data[1].record_id = StripTrailingB(rec_id)
    /\ \A r \in 1..Len(sheet) : sheet[r][1] = rec_id
    /\ option = "Comparison" /\ NoBaseline =>
         /\ sheet = <<>> /\ emails = <<>>
         /\ pc \notin {"classify", "append", "email", "success"}
         /\ pc = "done" /\ button => "error: no matching Record ID" \in ui
    /\ option = "Re-measure" =>
         /\ visit1_data = <<>> /\ pc \notin {"lookup", "classify"}
         /\ "error: no matching Record ID" \notin ui
         /\ pc = "done" /\ button => Len(sheet) = 1

\* A Comparison run entered as <<"C", "B", "P", "-", "0", "0", "2", "3", "-", "B">> found its baseline and stored the
\* identifier with the suffix.
C9_Witness ==
    /\ option = "Comparison"
    /\ rec_id = <<"C", "B", "P", "-", "0", "0", "2", "3", "-", "B">>
    /\ visit1_data # <<>>
    /\ Len(sheet) = 1 /\ sheet[1][1] = rec_id

\* C10: the e-mail is never sent before the row is appended, success is
\* never reported before the append and the e-mail it requires, and every
\* run that appended its row and ended without an exception has reported
\* success, an all-Green Comparison included.
C10_AppendNotifySuccess ==
    /\ emails # <<>> => sheet # <<>>
    /\ "success" \in ui => sheet # <<>> /\ (ShouldNotify => emails # <<>>)
    /\ pc = "done" /\ sheet # <<>> => "success" \in ui

====
